---- MODULE Spec2Model ----
(***************************************************************************)
(* A model of the Harvest API client (harvest/harvest.py) and of the       *)
(* export script that drives it (sample-code/harvest-test.py).             *)
(*                                                                         *)
(* Python values are records with a tag field t.  Python strings are       *)
(* sequences of tokens, so that formatting, joining and stripping are      *)
(* computed on the text and not assumed.                                   *)
(***************************************************************************)
EXTENDS Integers, Sequences, FiniteSets, TLC

VARIABLES
    pc,        \* where the caller is: "new", "rejected", "idle", "invoices", "done"
    client,    \* the Harvest object (its private fields), or NoClient
    op,        \* the wrapper operation in progress or just finished
    calls,     \* the HTTP calls made by the operation, in order
    outcome,   \* what the operation (or the constructor) returned or raised
    inv,       \* the local variables of invoices(): pages, page, formatted_args, invoices
    script     \* the export script: the variables of main() and of its __main__ block

vars == <<pc, client, op, calls, outcome, inv, script>>

----------------------------------------------------------------------------
(* Python values *)

PyNone == [t |-> "None"]
Str(s) == [t |-> "str", s |-> s]
List(items) == [t |-> "list", items |-> items]
Dict(keys, vals) == [t |-> "dict", keys |-> keys, vals |-> vals]
\* An object json cannot serialise (a set, a datetime, ...)
PyObject == [t |-> "object"]
\* An attribute that was never assigned
Unset == [t |-> "unset"]

Exc(type, args) == [t |-> "exc", type |-> type, args |-> args]

Return(v) == [k |-> "return", v |-> v]
Raise(e) == [k |-> "raise", v |-> e]
NoOutcome == [k |-> "none", v |-> PyNone]

\* bool(v)
Truthy(v) ==
    CASE v.t = "None" -> FALSE
      [] v.t = "str" -> v.s # <<>>
      [] v.t = "list" -> v.items # <<>>
      [] v.t = "dict" -> v.keys # <<>>
      [] v.t = "response" -> v.ok
      [] OTHER -> TRUE

\* list(v): the elements a for loop, or list +=, draws from v
Iterate(v) ==
    CASE v.t = "list" -> v.items
      [] v.t = "dict" -> [i \in 1..Len(v.keys) |-> Str(<<v.keys[i]>>)]
      [] v.t = "str" -> [i \in 1..Len(v.s) |-> Str(<<v.s[i]>>)]
      [] v.t = "response" -> IF v.body.t = "text" /\ v.body.s # <<>>
                             THEN <<Str(v.body.s)>> ELSE <<>>
      [] OTHER -> <<>>

RECURSIVE Serializable(_)
Serializable(v) ==
    CASE v.t \in {"None", "str"} -> TRUE
      [] v.t = "list" -> \A i \in 1..Len(v.items) : Serializable(v.items[i])
      [] v.t = "dict" -> \A i \in 1..Len(v.vals) : Serializable(v.vals[i])
      [] OTHER -> FALSE

\* json.dumps(v): the JSON text of v, or TypeError
json_dumps(v) ==
    IF Serializable(v) THEN Return([t |-> "json", of |-> v])
    ELSE Raise(Exc("TypeError", <<>>))

\* d.update({k: v}) for a dict d
DictUpdate(d, k, v) ==
    IF \E i \in 1..Len(d.keys) : d.keys[i] = k
    THEN Dict(d.keys, [i \in 1..Len(d.vals) |-> IF d.keys[i] = k THEN v ELSE d.vals[i]])
    ELSE Dict(Append(d.keys, k), Append(d.vals, v))

----------------------------------------------------------------------------
(* The constructor *)

NoClient == [t |-> "noclient"]

Schemes == {"https:", "http:"}
Slashes == {"/", "//"}

\* rstrip that leaves the string as it is
rstrip_keep(s) == s

\* s.rstrip('/')
RECURSIVE rstrip(_)
rstrip(s) ==
    IF s # <<>> /\ s[Len(s)] \in Slashes THEN rstrip(SubSeq(s, 1, Len(s) - 1)) ELSE s

\* s.strip()
RECURSIVE strip(_)
strip(s) ==
    IF s # <<>> /\ s[1] = " " THEN strip(Tail(s))
    ELSE IF s # <<>> /\ s[Len(s)] = " " THEN strip(SubSeq(s, 1, Len(s) - 1))
    ELSE s

\* The tokens of s before its first "/"
RECURSIVE UpToSlash(_)
UpToSlash(s) ==
    IF s = <<>> \/ s[1] \in Slashes THEN <<>> ELSE <<s[1]>> \o UpToSlash(Tail(s))

\* urlparse(uri): the scheme and the network location, each empty when absent
urlparse(uri) ==
    LET hasScheme == uri # <<>> /\ uri[1] \in Schemes
        rest == IF hasScheme THEN Tail(uri) ELSE uri
        hasNetloc == rest # <<>> /\ rest[1] = "//"
    IN  [scheme |-> IF hasScheme THEN <<uri[1]>> ELSE <<>>,
         netloc |-> IF hasNetloc THEN UpToSlash(Tail(rest)) ELSE <<>>]

\* base64.b64encode(s)
enc64(s) == <<"base64">> \o s

DefaultHeaders ==
    { <<"Content-Type", <<"application/json">> >>,
      <<"Accept", <<"application/json">> >>,
      <<"User-Agent", <<"Mozilla/5.0">> >> }

\* A membership test that finds no header
HasHeader_never(headers, name) == FALSE

HasHeader(headers, name) == \E h \in headers : h[1] = name

\* Harvest.__init__: the new object, or the HarvestError it raises
__init__(uri, email, password, client_id, token, put_auth_in_header) ==
    LET parsed == urlparse(uri)
        base == [t |-> "Harvest", uri |-> rstrip(uri), headers |-> DefaultHeaders,
                 auth |-> Unset, email |-> Unset, password |-> Unset,
                 client_id |-> Unset, token |-> Unset]
    IN  IF ~(parsed.scheme # <<>> /\ parsed.netloc # <<>>)
        THEN Raise(Exc("HarvestError", <<Str(<<"Invalid harvest uri">> \o uri)>>))
        ELSE IF Truthy(email) /\ Truthy(password)
        THEN Return([base EXCEPT
                !.auth = Str(<<"Basic">>),
                !.email = Str(strip(email.s)),
                !.password = password,
                !.headers = IF put_auth_in_header
                            THEN DefaultHeaders \cup
                                 { <<"Authorization",
                                     <<"Basic ">> \o enc64(strip(email.s) \o <<":">> \o password.s)>> }
                            ELSE DefaultHeaders])
        ELSE IF Truthy(client_id) /\ Truthy(token)
        THEN Return([base EXCEPT
                !.auth = Str(<<"OAuth2">>),
                !.client_id = client_id,
                !.token = token])
        ELSE Return(base)

----------------------------------------------------------------------------
(* The request dispatcher *)

\* The try block of _request, given what the HTTP library does with the call
\* (tr: a response, or the exception it raises): the decoded body of a
\* response, the response itself when it does not decode or the method is
\* DELETE, and HarvestError for an exception of the call.
\* 'DELETE' not in method is a substring test; the methods are whole words.
TryRequest_reraise(method, tr) ==
    IF tr.k = "exc" THEN Raise(tr.v)
    ELSE IF method # "DELETE" /\ tr.v.body.t = "json" THEN Return(tr.v.body.of)
    ELSE Return(tr.v)

TryRequest_strict(method, tr) ==
    IF tr.k = "exc" THEN Raise(Exc("HarvestError", <<tr.v>>))
    ELSE IF method = "DELETE" THEN Return(tr.v)
    ELSE IF tr.v.body.t = "json" THEN Return(tr.v.body.of)
    ELSE Raise(Exc("HarvestError", <<Exc("ValueError", <<>>)>>))

TryRequest_raw(method, tr) ==
    IF tr.k = "exc" THEN Raise(Exc("HarvestError", <<tr.v>>))
    ELSE Return(tr.v)

TryRequest(method, tr) ==
    IF tr.k = "exc" THEN Raise(Exc("HarvestError", <<tr.v>>))
    ELSE IF method # "DELETE"
    THEN (IF tr.v.body.t = "json" THEN Return(tr.v.body.of) ELSE Return(tr.v))
    ELSE Return(tr.v)

\* _request that writes the credentials into the headers it sends when the
\* constructor left them out
_request_auth_into_headers(c, method, path, data, tr) ==
    LET dumped == json_dumps(data)
    IN  IF dumped.k = "raise" THEN [calls |-> <<>>, out |-> dumped]
        ELSE IF c.auth.t = "unset"
        THEN [calls |-> <<>>, out |-> Raise(Exc("AttributeError", <<>>))]
        ELSE
        LET basic == c.auth = Str(<<"Basic">>)
            requestor == IF basic THEN [t |-> "requests"]
                         ELSE [t |-> "OAuth2Session",
                               client_id |-> c.client_id, token |-> c.token]
            headers == IF basic /\ ~HasHeader(c.headers, "Authorization")
                       THEN c.headers \cup
                            { <<"Authorization",
                                <<"Basic ">> \o enc64(c.email.s \o <<":">> \o c.password.s)>> }
                       ELSE c.headers
            out == TryRequest(method, tr)
        IN  [calls |-> << [method |-> method, url |-> c.uri \o path,
                           headers |-> headers, data |-> dumped.v, auth |-> <<>>,
                           requestor |-> requestor, tr |-> tr, ret |-> out] >>,
             out |-> out]

\* Harvest._request: the HTTP calls made and the outcome
_request(c, method, path, data, tr) ==
    LET dumped == json_dumps(data)
    IN  IF dumped.k = "raise" THEN [calls |-> <<>>, out |-> dumped]
        ELSE IF c.auth.t = "unset"
        THEN [calls |-> <<>>, out |-> Raise(Exc("AttributeError", <<>>))]
        ELSE
        LET basic == c.auth = Str(<<"Basic">>)
            requestor == IF basic THEN [t |-> "requests"]
                         ELSE [t |-> "OAuth2Session",
                               client_id |-> c.client_id, token |-> c.token]
            auth == IF basic /\ ~HasHeader(c.headers, "Authorization")
                    THEN <<c.email, c.password>> ELSE <<>>
            out == TryRequest(method, tr)
        IN  [calls |-> << [method |-> method, url |-> c.uri \o path,
                           headers |-> c.headers, data |-> dumped.v, auth |-> auth,
                           requestor |-> requestor, tr |-> tr, ret |-> out] >>,
             out |-> out]

\* _get that sends the request again when it failed
_get_retry(c, path, data, tr) ==
    LET r == _request(c, "GET", path, data, tr)
    IN  IF tr.k = "exc" THEN [r EXCEPT !.calls = r.calls \o r.calls] ELSE r

_get(c, path, data, tr) == _request(c, "GET", path, data, tr)
_post(c, path, data, tr) == _request(c, "POST", path, data, tr)
_put(c, path, data, tr) == _request(c, "PUT", path, data, tr)
_delete(c, path, data, tr) == _request(c, "DELETE", path, data, tr)

\* What a wrapper method hands to the dispatcher
D(via, path, data, args) == [via |-> via, path |-> path, data |-> data, args |-> args]

Dispatch(c, d, tr) ==
    CASE d.via = "_get" -> _get(c, d.path, d.data, tr)
      [] d.via = "_post" -> _post(c, d.path, d.data, tr)
      [] d.via = "_put" -> _put(c, d.path, d.data, tr)
      [] d.via = "_delete" -> _delete(c, d.path, d.data, tr)

\* '{0}?updated_since={1}'.format(url, updated_since) when updated_since is not None
WithUpdatedSince(url, o) ==
    IF o # PyNone THEN url \o <<"?", "updated_since=">> \o o.s ELSE url

----------------------------------------------------------------------------
(* The wrapper methods.  x holds the arguments of the call:                *)
(* a, b: ids; o: an optional argument; s, e: dates; d: a data argument;    *)
(* kw: the keyword arguments; fname, lname: names.                         *)

ContactNames ==
    {"who_am_i", "contacts", "get_contact", "create_contact", "client_contacts",
     "update_contact", "delete_contact"}

ContactsApi(name, x) ==
    CASE name = "who_am_i" ->
            D("_get", <<"/", "account", "/", "who_am_i">>, PyNone, <<>>)
      [] name = "contacts" ->
            D("_get", WithUpdatedSince(<<"/", "contacts">>, x.o), PyNone, <<>>)
      [] name = "get_contact" ->
            D("_get", <<"/", "contacts", "/", x.a>>, PyNone, <<x.a>>)
      [] name = "create_contact" ->
            D("_post", <<"/", "contacts", "/", x.a>>,
              DictUpdate(DictUpdate(x.kw, "first-name", x.fname), "last-name", x.lname),
              <<x.a>>)
      [] name = "client_contacts" ->
            D("_get", WithUpdatedSince(<<"/", "clients", "/", x.a, "/", "contacts">>, x.o),
              PyNone, <<x.a>>)
      [] name = "update_contact" ->
            D("_put", <<"/", "contacts", "/", x.a>>, x.kw, <<x.a>>)
      [] name = "delete_contact" ->
            D("_delete", <<"/", "contacts", "/", x.a>>, PyNone, <<x.a>>)

ClientNames ==
    {"clients", "get_client", "create_client", "update_client",
     "toggle_client_active", "delete_client"}

ClientsApi(name, x) ==
    CASE name = "clients" ->
            D("_get", WithUpdatedSince(<<"/", "clients">>, x.o), PyNone, <<>>)
      [] name = "get_client" ->
            D("_get", <<"/", "clients", "/", x.a>>, PyNone, <<x.a>>)
      [] name = "create_client" ->
            D("_post", <<"/", "clients", "/">>, x.kw, <<>>)
      [] name = "update_client" ->
            D("_put", <<"/", "clients", "/", x.a>>, x.kw, <<x.a>>)
      [] name = "toggle_client_active" ->
            D("_post", <<"/", "clients", "/", x.a, "/", "toggle">>, PyNone, <<x.a>>)
      [] name = "delete_client" ->
            D("_delete", <<"/", "clients", "/", x.a>>, PyNone, <<x.a>>)

PeopleNames == {"people", "get_person", "toggle_person_active", "delete_person"}

PeopleApi(name, x) ==
    CASE name = "people" ->
            D("_get", <<"/", "people">>, PyNone, <<>>)
      [] name = "get_person" ->
            D("_get", <<"/", "people", "/", x.a>>, PyNone, <<x.a>>)
      [] name = "toggle_person_active" ->
            D("_get", <<"/", "people", "/", x.a, "/", "toggle">>, PyNone, <<x.a>>)
      [] name = "delete_person" ->
            D("_delete", <<"/", "people", "/", x.a>>, PyNone, <<x.a>>)

ProjectNames ==
    {"projects", "projects_for_client", "timesheets_for_project",
     "expenses_for_project", "get_project", "create_project", "update_project",
     "toggle_project_active", "delete_project"}

ProjectsApi(name, x) ==
    CASE name = "projects" ->
            IF Truthy(x.o)
            THEN D("_get", <<"/", "projects", "?", "client=">> \o x.o.s, PyNone, <<>>)
            ELSE D("_get", <<"/", "projects">>, PyNone, <<>>)
      [] name = "projects_for_client" ->
            D("_get", <<"/", "projects", "?", "client=", x.a>>, PyNone, <<x.a>>)
      [] name = "timesheets_for_project" ->
            D("_get", <<"/", "projects", "/", x.a, "/", "entries", "?",
                        "from=", x.s, "&", "to=", x.e>>, PyNone, <<x.a>>)
      [] name = "expenses_for_project" ->
            D("_get", <<"/", "projects", "/", x.a, "/", "expenses", "?",
                        "from=", x.s, "&", "to=", x.e>>, PyNone, <<x.a>>)
      [] name = "get_project" ->
            D("_get", <<"/", "projects", "/", x.a>>, PyNone, <<x.a>>)
      [] name = "create_project" ->
            D("_post", <<"/", "projects">>, x.kw, <<>>)
      [] name = "update_project" ->
            D("_put", <<"/", "projects", "/", x.a>>, x.kw, <<x.a>>)
      [] name = "toggle_project_active" ->
            D("_put", <<"/", "projects", "/", x.a, "/", "toggle">>, PyNone, <<x.a>>)
      [] name = "delete_project" ->
            D("_delete", <<"/", "projects", "/", x.a>>, PyNone, <<x.a>>)

TaskNames ==
    {"tasks", "get_task", "create_task", "update_task", "delete_task", "activate_task"}

TasksApi(name, x) ==
    CASE name = "tasks" ->
            IF Truthy(x.o)
            THEN D("_get", <<"/", "tasks", "?", "updated_since=">> \o x.o.s, PyNone, <<>>)
            ELSE D("_get", <<"/", "tasks">>, PyNone, <<>>)
      [] name = "get_task" ->
            D("_get", <<"/", "tasks", "/", x.a>>, PyNone, <<x.a>>)
      [] name = "create_task" ->
            D("_post", <<"/", "tasks", "/">>, x.kw, <<>>)
      [] name = "update_task" ->
            D("_put", <<"/", "tasks", "/", x.a>>, x.kw, <<x.a>>)
      [] name = "delete_task" ->
            D("_delete", <<"/", "tasks", "/", x.a>>, PyNone, <<x.a>>)
      [] name = "activate_task" ->
            D("_post", <<"/", "tasks", "/", x.a, "/", "activate">>, PyNone, <<x.a>>)

AssignmentNames ==
    {"get_all_tasks_from_project", "get_one_task_assigment", "assign_task_to_project",
     "create_task_to_project", "remove_task_from_project", "change_task_from_project",
     "assign_user_to_project"}

AssignmentsApi(name, x) ==
    CASE name = "get_all_tasks_from_project" ->
            D("_get", <<"/", "projects", "/", x.a, "/", "task_assignments">>, PyNone, <<x.a>>)
      [] name = "get_one_task_assigment" ->
            D("_get", <<"/", "projects", "/", x.a, "/", "task_assignments", "/", x.b>>,
              PyNone, <<x.a, x.b>>)
      [] name = "assign_task_to_project" ->
            D("_post", <<"/", "projects", "/", x.a, "/", "task_assignments", "/">>,
              x.kw, <<x.a>>)
      [] name = "create_task_to_project" ->
            D("_post", <<"/", "projects", "/", x.a, "/", "task_assignments", "/",
                         "add_with_create_new_task">>, x.kw, <<x.a>>)
      [] name = "remove_task_from_project" ->
            D("_delete", <<"/", "projects", "/", x.a, "/", "task_assignments", "/", x.b>>,
              PyNone, <<x.a, x.b>>)
      [] name = "change_task_from_project" ->
            D("_put", <<"/", "projects", "/", x.a, "/", "task_assignments", "/", x.b>>,
              DictUpdate(x.kw, "task-assignment", x.d), <<x.a, x.b>>)
      [] name = "assign_user_to_project" ->
            D("_post", <<"/", "projects", "/", x.a, "/", "user_assignments">>,
              Dict(<<"user">>, <<Dict(<<"id">>, <<Str(<<x.b>>)>>)>>), <<x.a, x.b>>)

ExpenseCategoryNames ==
    {"expense_categories", "create_expense_category", "update_expense_category",
     "get_expense_category", "delete_expense_category", "toggle_expense_category_active"}

ExpenseCategoriesApi(name, x) ==
    CASE name = "expense_categories" ->
            D("_get", <<"/", "expense_categories">>, PyNone, <<>>)
      [] name = "create_expense_category" ->
            D("_post", <<"/", "expense_categories", "/", x.a>>, x.kw, <<x.a>>)
      [] name = "update_expense_category" ->
            D("_put", <<"/", "expense_categories", "/", x.a>>, x.kw, <<x.a>>)
      [] name = "get_expense_category" ->
            D("_get", <<"/", "expense_categories", "/", x.a>>, PyNone, <<x.a>>)
      [] name = "delete_expense_category" ->
            D("_delete", <<"/", "expense_categories", "/", x.a>>, PyNone, <<x.a>>)
      [] name = "toggle_expense_category_active" ->
            D("_get", <<"/", "expense_categories", "/", x.a, "/", "toggle">>, PyNone, <<x.a>>)

TimeTrackingNames ==
    {"today", "get_day", "get_entry", "toggle_timer", "add", "add_for_user",
     "delete", "update"}

TimeTrackingApi(name, x) ==
    CASE name = "today" ->
            D("_get", <<"/", "daily">>, PyNone, <<>>)
      [] name = "get_day" ->
            D("_get", <<"/", "daily", "/", x.a, "/", x.b>>, PyNone, <<x.a, x.b>>)
      [] name = "get_entry" ->
            D("_get", <<"/", "daily", "/", "show", "/", x.a>>, PyNone, <<x.a>>)
      [] name = "toggle_timer" ->
            D("_get", <<"/", "daily", "/", "timer", "/", x.a>>, PyNone, <<x.a>>)
      [] name = "add" ->
            D("_post", <<"/", "daily", "/", "add">>, x.d, <<>>)
      [] name = "add_for_user" ->
            D("_post", <<"/", "daily", "/", "add", "?", "of_user=", x.a>>, x.d, <<x.a>>)
      [] name = "delete" ->
            D("_delete", <<"/", "daily", "/", "delete", "/", x.a>>, PyNone, <<x.a>>)
      [] name = "update" ->
            D("_post", <<"/", "daily", "/", "update", "/", x.a>>, x.d, <<x.a>>)

InvoiceNames == {"get_invoice", "delete_invoice", "update_invoice", "add_invoice"}

InvoicesApi(name, x) ==
    CASE name = "get_invoice" ->
            D("_get", <<"/", "invoices", "/", x.a>>, PyNone, <<x.a>>)
      [] name = "delete_invoice" ->
            D("_delete", <<"/", "invoices", "/", x.a>>, PyNone, <<x.a>>)
      [] name = "update_invoice" ->
            D("_put", <<"/", "invoices", "/", x.a>>, x.d, <<x.a>>)
      [] name = "add_invoice" ->
            D("_post", <<"/", "invoices">>, x.d, <<>>)

\* The 'VERB /path' line of the docstring of a task- or user-assignment
\* method, the ids filled in (verb "" where the docstring gives the path only)
DocLine(name, args) ==
    CASE name = "get_all_tasks_from_project" ->
            [verb |-> "", path |-> <<"/", "projects", "/", args[1], "/", "task_assignments">>]
      [] name = "get_one_task_assigment" ->
            [verb |-> "GET",
             path |-> <<"/", "projects", "/", args[1], "/", "task_assignments", "/", args[2]>>]
      [] name = "assign_task_to_project" ->
            [verb |-> "POST",
             path |-> <<"/", "projects", "/", args[1], "/", "task_assignments">>]
      [] name = "create_task_to_project" ->
            [verb |-> "POST",
             path |-> <<"/", "projects", "/", args[1], "/", "task_assignments", "/",
                        "add_with_create_new_task">>]
      [] name = "remove_task_from_project" ->
            [verb |-> "DELETE",
             path |-> <<"/", "projects", "/", args[1], "/", "task_assignments", "/", args[2]>>]
      [] name = "change_task_from_project" ->
            [verb |-> "PUT",
             path |-> <<"/", "projects", "/", args[1], "/", "task_assignments", "/", args[2]>>]
      [] name = "assign_user_to_project" ->
            [verb |-> "POST",
             path |-> <<"/", "projects", "/", args[1], "/", "user_assignments">>]

\* The methods that make one call to the dispatcher
SingleNames ==
    ContactNames \cup ClientNames \cup PeopleNames \cup ProjectNames \cup TaskNames
    \cup AssignmentNames \cup ExpenseCategoryNames \cup TimeTrackingNames \cup InvoiceNames

Wrapper(name, x) ==
    CASE name \in ContactNames -> ContactsApi(name, x)
      [] name \in ClientNames -> ClientsApi(name, x)
      [] name \in PeopleNames -> PeopleApi(name, x)
      [] name \in ProjectNames -> ProjectsApi(name, x)
      [] name \in TaskNames -> TasksApi(name, x)
      [] name \in AssignmentNames -> AssignmentsApi(name, x)
      [] name \in ExpenseCategoryNames -> ExpenseCategoriesApi(name, x)
      [] name \in TimeTrackingNames -> TimeTrackingApi(name, x)
      [] name \in InvoiceNames -> InvoicesApi(name, x)

----------------------------------------------------------------------------
(* invoices() *)

\* The server holds at most MaxPage non-empty pages of invoices
MaxPage == 2

formats ==
    [start_date |-> "from=", end_date |-> "to=", status_enum |-> "status=",
     updated_since |-> "updated_since="]

\* formats[key].format(value) for key, value in kwargs.items() if value:
\* the formatted filters in the order the dict yields them, or the KeyError
\* of the first filter with a value that formats does not hold.
\* kw is kwargs.items(): a sequence of <<key, value>>.
RECURSIVE FormatFilters(_)
FormatFilters(kw) ==
    IF kw = <<>> THEN Return(<<>>)
    ELSE IF ~Truthy(kw[1][2]) THEN FormatFilters(Tail(kw))
    ELSE IF kw[1][1] \notin DOMAIN formats
    THEN Raise(Exc("KeyError", <<Str(<<kw[1][1]>>)>>))
    ELSE LET rest == FormatFilters(Tail(kw))
         IN  IF rest.k = "raise" THEN rest
             ELSE Return(<< <<formats[kw[1][1]]>> \o kw[1][2].s >> \o rest.v)

\* sep.join(parts)
RECURSIVE Join(_, _)
Join(sep, parts) ==
    IF parts = <<>> THEN <<>>
    ELSE IF Len(parts) = 1 THEN parts[1]
    ELSE parts[1] \o <<sep>> \o Join(sep, Tail(parts))

\* pages = kwargs.pop("pages", count(start=1)), as an iterator
CountFrom(n) == [t |-> "count", next |-> n, rest |-> <<>>]
IterOf(list) == [t |-> "iter", next |-> 0, rest |-> list]

Exhausted(it) == it.t = "iter" /\ it.rest = <<>>
NextOf(it) == IF it.t = "count" THEN it.next ELSE it.rest[1]
\* An iterator that leaves a page out
Advance_skip(it) == IF it.t = "count" THEN CountFrom(it.next + 2) ELSE IterOf(Tail(it.rest))
Advance(it) == IF it.t = "count" THEN CountFrom(it.next + 1) ELSE IterOf(Tail(it.rest))

NoInv == [pages |-> IterOf(<<>>), formatted_args |-> <<>>, invoices |-> <<>>]

\* '/invoices?page={0}{1}'.format(page, formatted_args and ("&" + formatted_args))
InvoicesUrl(page, formatted_args) ==
    <<"/", "invoices", "?", "page=", ToString(page)>>
    \o (IF formatted_args # <<>> THEN <<"&">> \o formatted_args ELSE <<>>)

\* invoices(), up to its loop: the iterator over the pages and the formatted
\* filters, or the exception raised while formatting.
InvoicesEnter(pages, kw) ==
    LET parts == FormatFilters(kw)
    IN  IF parts.k = "raise" THEN parts
        ELSE Return([pages |-> IF pages.t = "unset" THEN CountFrom(1) ELSE IterOf(pages.items),
                     formatted_args |-> Join("&", parts.v),
                     invoices |-> <<>>])

\* if not invoice_set: break
IsLastPage_empty_list(invoice_set) == invoice_set = List(<<>>)

IsLastPage(invoice_set) == ~Truthy(invoice_set)

\* One turn of the loop of invoices(), the request of the page answered by tr:
\* the HTTP calls made, the local variables after it, and the outcome of the
\* method when the turn ends it (NoOutcome when the loop goes on).
InvoicesTurn(c, l, tr) ==
    IF Exhausted(l.pages)
    THEN [calls |-> <<>>, inv |-> l, out |-> Return(List(l.invoices))]
    ELSE LET page == NextOf(l.pages)
             r == _get(c, InvoicesUrl(page, l.formatted_args), PyNone, tr)
             after == [l EXCEPT !.pages = Advance(l.pages)]
         IN  IF r.out.k = "raise"
             THEN [calls |-> r.calls, inv |-> after, out |-> r.out]
             ELSE IF IsLastPage(r.out.v)
             THEN [calls |-> r.calls, inv |-> after, out |-> Return(List(l.invoices))]
             ELSE [calls |-> r.calls,
                   inv |-> [after EXCEPT !.invoices = l.invoices \o Iterate(r.out.v)],
                   out |-> NoOutcome]

----------------------------------------------------------------------------
(* status *)

HARVEST_STATUS_URL ==
    <<"http:", "//", "www.harveststatus.com", "/", "api", "/", "v2", "/", "status.json">>

\* d.get(key, default)
DictGet(d, key, default) ==
    IF \E i \in 1..Len(d.keys) : d.keys[i] = key
    THEN d.vals[CHOOSE i \in 1..Len(d.keys) : d.keys[i] = key]
    ELSE default

\* status(): requests.get(HARVEST_STATUS_URL).json().get('status', {}), and {}
\* when any of the three steps raises
status(tr) ==
    LET out == IF tr.k = "resp" /\ tr.v.body.t = "json" /\ tr.v.body.of.t = "dict"
               THEN Return(DictGet(tr.v.body.of, "status", Dict(<<>>, <<>>)))
               ELSE Return(Dict(<<>>, <<>>))
    IN  [calls |-> << [method |-> "GET", url |-> HARVEST_STATUS_URL, headers |-> {},
                       data |-> PyNone, auth |-> <<>>, requestor |-> [t |-> "requests"],
                       tr |-> tr, ret |-> out] >>,
         out |-> out]

----------------------------------------------------------------------------
(* The export script *)

AuthFailMessage == Str(<<"Authentication failed for API request.">>)

\* test_json(json): FALSE for the document of a failed authentication
test_json(json) ==
    ~(json.t = "dict" /\ DictGet(json, "message", PyNone) = AuthFailMessage)

mapping_fns ==
    << [file |-> "clients.json", fn |-> "clients"],
       [file |-> "projects.json", fn |-> "projects"],
       [file |-> "contacts.json", fn |-> "contacts"],
       [file |-> "people.json", fn |-> "people"],
       [file |-> "tasks.json", fn |-> "tasks"],
       [file |-> "invoices.json", fn |-> "invoices"] >>

\* The script before it runs.  ids, eidx, iidx and json are the variables of
\* the second half of main(); csv, exit and printed record what the
\* __main__ block has done (exit is NotExited while the process runs).
NotExited == -1
ScriptOff ==
    [pc |-> "off", idx |-> 0, errors |-> 0, files |-> {}, log |-> <<>>, exc |-> PyNone,
     ids |-> [project |-> <<>>, client |-> <<>>], eidx |-> 0, iidx |-> 0, json |-> <<>>,
     csv |-> FALSE, exit |-> NotExited, printed |-> FALSE]

\* get_client(): Harvest(url, email, password) for the account of the
\* credentials file
get_client(app, email, password) ==
    __init__(<<"https:", "//", app, ".harvestapp.com">>, email, password,
             PyNone, PyNone, TRUE)

\* The body of the first loop of main() after json = fn() returned:
\* the script's variables after the file is written or the error counted
PrimaryResult(s, json) ==
    LET filename == mapping_fns[s.idx].file
    IN  IF test_json(json)
        THEN IF json_dumps(json).k = "raise"
             \* open(filename, "w") has made the file; dumps raises
             THEN [s EXCEPT !.pc = "raised", !.exc = json_dumps(json).v,
                            !.log = Append(s.log, <<"info", filename>>),
                            !.files = {f \in s.files : f[1] # filename}
                                      \cup {<<filename, [t |-> "text", s |-> <<>>]>>}]
             ELSE [s EXCEPT !.pc = "call", !.idx = s.idx + 1,
                            !.log = Append(s.log, <<"info", filename>>),
                            !.files = {f \in s.files : f[1] # filename}
                                      \cup {<<filename, json_dumps(json).v>>}]
        ELSE [s EXCEPT !.pc = "call", !.idx = s.idx + 1,
                       !.log = Append(s.log, <<"error", filename>>),
                       !.errors = s.errors + 1]

\* simplejson.loads(handle.read()) of a file main() wrote
FileContent(files, filename) ==
    (CHOOSE f \in files : f[1] = filename)[2].of

\* [d[key]["id"] for d in docs]: the ids, or the exception of the first
\* element that has no d[key]["id"]
IdsOf(docs, key) ==
    LET items == Iterate(docs)
        HasId(d) == /\ d.t = "dict"
                    /\ DictGet(d, key, Unset).t = "dict"
                    /\ DictGet(DictGet(d, key, Unset), "id", Unset) # Unset
        bad == {i \in 1..Len(items) : ~HasId(items[i])}
    IN  IF bad = {}
        THEN Return([i \in 1..Len(items) |-> DictGet(DictGet(items[i], key, Unset), "id", Unset)])
        ELSE LET d == items[CHOOSE i \in bad : \A j \in bad : i <= j]
             IN  Raise(Exc(IF d.t = "dict" /\ DictGet(d, key, Unset) = Unset
                           THEN "KeyError" ELSE "TypeError", <<>>))

\* main(): the exports that take an id, in order.  dates: called with ALL_2016
mapping_ids ==
    << [file |-> "expenses_for_project.json", fn |-> "expenses_for_project",
        dates |-> TRUE, ids |-> "project"],
       [file |-> "tasks_for_project.json", fn |-> "get_all_tasks_from_project",
        dates |-> FALSE, ids |-> "project"],
       [file |-> "timesheets_for_project.json", fn |-> "timesheets_for_project",
        dates |-> TRUE, ids |-> "project"],
       [file |-> "projects_for_client.json", fn |-> "projects_for_client",
        dates |-> FALSE, ids |-> "client"] >>

\* main() after the first loops: it returns the error count when there is
\* one, and else reads the ids out of projects.json and clients.json
AfterPrimary(s) ==
    IF s.errors # 0 THEN [s EXCEPT !.pc = "returned"]
    ELSE LET p == IdsOf(FileContent(s.files, "projects.json"), "project")
             c == IdsOf(FileContent(s.files, "clients.json"), "client")
         IN  IF p.k = "raise" THEN [s EXCEPT !.pc = "raised", !.exc = p.v]
             ELSE IF c.k = "raise" THEN [s EXCEPT !.pc = "raised", !.exc = c.v]
             ELSE [s EXCEPT !.pc = "export", !.eidx = 1, !.iidx = 1, !.json = <<>>,
                            !.ids = [project |-> p.v, client |-> c.v],
                            !.log = Append(s.log, <<"info", mapping_ids[1].file>>)]

\* The ids the current export of main() goes through
ExportIds(s) == s.ids[mapping_ids[s.eidx].ids]

\* d = fn(id, **kwargs) has returned d: if d: json += d
ExportTake(s, d) ==
    [s EXCEPT !.pc = "export", !.iidx = s.iidx + 1,
              !.json = IF Truthy(d) THEN s.json \o Iterate(d) ELSE s.json]

\* The ids of an export are done: main() writes the file and goes to the
\* next export, or returns 0 after the last
ExportWrite(s) ==
    LET filename == mapping_ids[s.eidx].file
        dumped == json_dumps(List(s.json))
    IN  IF dumped.k = "raise"
        THEN [s EXCEPT !.pc = "raised", !.exc = dumped.v,
                       !.files = {f \in s.files : f[1] # filename}
                                 \cup {<<filename, [t |-> "text", s |-> <<>>]>>}]
        ELSE LET w == [s EXCEPT !.files = {f \in s.files : f[1] # filename}
                                          \cup {<<filename, dumped.v>>},
                                !.eidx = s.eidx + 1, !.iidx = 1, !.json = <<>>]
             IN  IF s.eidx = Len(mapping_ids) THEN [w EXCEPT !.pc = "returned"]
                 ELSE [w EXCEPT !.log = Append(s.log, <<"info", mapping_ids[s.eidx + 1].file>>)]

\* The interpreters the script runs under: dict.keys() is a list under
\* Python 2 and a view, which has no [0], under Python 3
Pythons == {"python2", "python3"}

\* json_to_csv(), the body of its loop for one file holding data: "rows"
\* when the rows are written, "nodata" when the IndexError of data[0] is
\* caught, or the exception that leaves json_to_csv
CsvOf(data, python) ==
    IF data.t # "list" THEN Raise(Exc("KeyError", <<>>))
    ELSE IF data.items = <<>> THEN Return(Str(<<"nodata">>))
    ELSE LET d1 == data.items[1]
         IN  IF d1.t # "dict" THEN Raise(Exc("AttributeError", <<>>))
             ELSE IF python = "python3" THEN Raise(Exc("TypeError", <<>>))
             ELSE IF d1.keys = <<>> THEN Raise(Exc("IndexError", <<>>))
             ELSE LET key == d1.keys[1]
                  IN  IF d1.vals[1].t # "dict" THEN Raise(Exc("AttributeError", <<>>))
                      ELSE IF \E i \in 1..Len(data.items) :
                                 \/ data.items[i].t # "dict"
                                 \/ DictGet(data.items[i], key, Unset).t # "dict"
                      THEN Raise(Exc("KeyError", <<>>))
                      ELSE Return(Str(<<"rows">>))

\* json_to_csv() over the files of glob("*.json"): the exceptions it can
\* end with, one for each file whose conversion raises (the order of glob
\* decides which comes first); none when every file converts
json_to_csv(files, python) ==
    { CsvOf(f[2].of, python).v : f \in {g \in files : CsvOf(g[2].of, python).k = "raise"} }

\* The get_credentials() of the script: the file holds the three keys, or
\* cannot be read
NoCredentials == Exc("IOError", <<>>)

----------------------------------------------------------------------------
(* The inputs: what callers pass and what the network does *)

Uris ==
    { <<"https:", "//", "acme.harvestapp.com">>,
      <<"https:", "//", "acme.harvestapp.com", "/">>,
      <<"https:", "//", "acme.harvestapp.com", "/", "/">>,
      <<"acme.harvestapp.com">>,
      <<"//", "acme.harvestapp.com">>,
      <<"https:", "/", "acme.harvestapp.com">>,
      <<"https:", "//">> }
Emails == {PyNone, Str(<<>>), Str(<<"u@acme.com">>), Str(<<" ", "u@acme.com", " ">>)}
Passwords == {PyNone, Str(<<"secret">>)}
ClientIds == {PyNone, Str(<<"app-id">>)}
Tokens == {PyNone, Dict(<<"access_token">>, <<Str(<<"tok">>)>>)}
Apps == {"acme"}

Ids == {"7", "8"}
Opts == {PyNone, Str(<<>>), Str(<<"2010-09-25">>)}
Dates == {"2016-01-01", "2016-12-31"}
Kwargs == {Dict(<<>>, <<>>), Dict(<<"notes">>, <<Str(<<"n">>)>>), Dict(<<"when">>, <<PyObject>>)}
Datas == {PyNone} \cup Kwargs

\* The arguments of a call: the ids and the payloads vary together, the
\* optional argument and the dates each on their own
ArgsWith(a, b, o, s, e, d, kw) ==
    [a |-> a, b |-> b, o |-> o, s |-> s, e |-> e, d |-> d, kw |-> kw,
     fname |-> Str(<<"Ann">>), lname |-> Str(<<"Lee">>)]
Args ==
    { ArgsWith(a, b, PyNone, "2016-01-01", "2016-12-31", d, kw) :
        a \in Ids, b \in Ids, d \in Datas, kw \in Kwargs }
    \cup { ArgsWith("7", "8", o, "2016-01-01", "2016-12-31", PyNone, Dict(<<>>, <<>>)) :
        o \in Opts }
    \cup { ArgsWith("7", "8", PyNone, s, e, PyNone, Dict(<<>>, <<>>)) :
        s \in Dates, e \in Dates }
\* The arguments of a call that passes none
NoArgs == ArgsWith("7", "8", PyNone, "2016-01-01", "2016-12-31", PyNone, Dict(<<>>, <<>>))

\* The filters invoices() documents, under the keyword each would be passed by
FilterKeys == {"start_date", "end_date", "status_enum", "updated_since", "client_id"}
FilterValues == {PyNone, Str(<<"v">>)}
\* kwargs.items() of a call with no filter, one filter, or two filters with values
FilterInputs ==
    {<<>>}
    \cup { << <<k, v>> >> : k \in FilterKeys, v \in FilterValues }
    \cup { << <<ks[1], Str(<<"v">>)>>, <<ks[2], Str(<<"w">>)>> >> :
             ks \in {p \in FilterKeys \X FilterKeys : p[1] # p[2]} }
\* The pages argument: absent, or a list of page numbers
PagesInputs ==
    {Unset, List(<<>>)}
    \cup { List(<<p>>) : p \in 1..MaxPage }
    \cup { List(<<p, q>>) : p \in 1..MaxPage, q \in 1..MaxPage }

ItemA == Dict(<<"project">>, <<Dict(<<"id">>, <<Str(<<"7">>)>>)>>)
ItemB == Dict(<<"client">>, <<Dict(<<"id">>, <<Str(<<"8">>)>>)>>)
AuthFailDoc == Dict(<<"message">>, <<AuthFailMessage>>)
StatusDoc == Dict(<<"status">>, <<Str(<<"up">>)>>)

Resp(ok, body) == [t |-> "response", ok |-> ok, body |-> body]
JsonBody(doc) == json_dumps(doc).v
TextBody == [t |-> "text", s |-> <<"<html>">>]

Responses ==
    { Resp(TRUE, JsonBody(doc)) :
        doc \in {List(<<>>), List(<<ItemA>>), List(<<ItemB, ItemA>>), Dict(<<>>, <<>>)} }
    \cup { Resp(FALSE, JsonBody(AuthFailDoc)), Resp(TRUE, TextBody), Resp(FALSE, TextBody) }
TransportErrors == {Exc("ConnectionError", <<>>), Exc("Timeout", <<>>)}

Answer(resp) == [k |-> "resp", v |-> resp]
Fails(exc) == [k |-> "exc", v |-> exc]

Transports == {Answer(r) : r \in Responses} \cup {Fails(e) : e \in TransportErrors}
StatusTransports == Transports \cup {Answer(Resp(TRUE, JsonBody(StatusDoc)))}
\* What the network does in a run of the export script
ScriptTransports ==
    { Answer(Resp(TRUE, JsonBody(List(<<>>)))), Answer(Resp(TRUE, JsonBody(List(<<ItemA>>)))),
      Answer(Resp(FALSE, JsonBody(AuthFailDoc))), Answer(Resp(FALSE, TextBody)),
      Fails(Exc("ConnectionError", <<>>)) }
\* What the network does for a request of the named method in a run of the
\* script: the account's clients are client documents, the rest of its
\* listings project documents
ScriptTransportsFor(name) ==
    IF name = "clients"
    THEN (ScriptTransports \ {Answer(Resp(TRUE, JsonBody(List(<<ItemA>>))))})
         \cup {Answer(Resp(TRUE, JsonBody(List(<<ItemB>>))))}
    ELSE ScriptTransports
\* What the network does for a request of the exports by id
ExportTransports ==
    { Answer(Resp(TRUE, JsonBody(List(<<>>)))), Answer(Resp(TRUE, JsonBody(List(<<ItemA>>)))),
      Answer(Resp(FALSE, JsonBody(AuthFailDoc))), Fails(Exc("ConnectionError", <<>>)) }

----------------------------------------------------------------------------
(* The state machine *)

NoOp == [name |-> "", via |-> "", path |-> <<>>, data |-> PyNone, args |-> <<>>,
         pages |-> Unset, kw |-> <<>>]

Init ==
    /\ pc = "new"
    /\ client = NoClient
    /\ op = NoOp
    /\ calls = <<>>
    /\ outcome = NoOutcome
    /\ inv = NoInv
    /\ script = ScriptOff

\* client = Harvest(uri, email, password, client_id, token, put_auth_in_header)
Construct ==
    /\ pc = "new"
    /\ \E uri \in Uris, email \in Emails, password \in Passwords,
          client_id \in ClientIds, token \in Tokens, put \in BOOLEAN :
         LET r == __init__(uri, email, password, client_id, token, put)
         IN  IF r.k = "raise"
             THEN pc' = "rejected" /\ outcome' = r /\ client' = NoClient
             ELSE pc' = "idle" /\ outcome' = NoOutcome /\ client' = r.v
    /\ UNCHANGED <<op, calls, inv, script>>

\* A call of a wrapper method that makes one call to the dispatcher
Call ==
    /\ pc = "idle" /\ script.pc = "off"
    /\ \E name \in SingleNames, x \in Args, tr \in Transports :
         LET d == Wrapper(name, x)
             r == Dispatch(client, d, tr)
         IN  /\ op' = [NoOp EXCEPT !.name = name, !.via = d.via, !.path = d.path,
                                   !.data = d.data, !.args = d.args]
             /\ calls' = r.calls
             /\ outcome' = r.out
    /\ pc' = "done"
    /\ UNCHANGED <<client, inv, script>>

\* client.status
StatusCall ==
    /\ pc = "idle" /\ script.pc = "off"
    /\ \E tr \in StatusTransports :
         LET r == status(tr)
         IN  /\ calls' = r.calls
             /\ outcome' = r.out
    /\ op' = [NoOp EXCEPT !.name = "status"]
    /\ pc' = "done"
    /\ UNCHANGED <<client, inv, script>>

\* The effect of entering invoices(pages=..., **kw)
EnterInvoices(pages, kw) ==
    LET r == InvoicesEnter(pages, kw)
    IN  /\ op' = [NoOp EXCEPT !.name = "invoices", !.via = "_get", !.pages = pages, !.kw = kw]
        /\ calls' = <<>>
        /\ IF r.k = "raise"
           THEN pc' = "done" /\ outcome' = r /\ inv' = NoInv
           ELSE pc' = "invoices" /\ outcome' = NoOutcome /\ inv' = r.v

\* client.invoices(...)
InvoicesCall ==
    /\ pc = "idle" /\ script.pc = "off"
    /\ \E pages \in PagesInputs, kw \in FilterInputs : EnterInvoices(pages, kw)
    /\ UNCHANGED <<client, script>>

\* One turn of the loop of invoices().  Past page MaxPage the server has
\* nothing more, so the turn ends the loop.
InvoicesPage ==
    /\ pc = "invoices"
    /\ \E tr \in IF script.pc = "off" THEN Transports ELSE ScriptTransports :
         LET t == InvoicesTurn(client, inv, tr)
         IN  /\ ~(~Exhausted(inv.pages) /\ NextOf(inv.pages) > MaxPage /\ t.out = NoOutcome)
             /\ calls' = calls \o t.calls
             /\ inv' = t.inv
             /\ outcome' = t.out
             /\ pc' = IF t.out = NoOutcome THEN "invoices" ELSE "done"
    /\ UNCHANGED <<client, op, script>>

\* The caller takes the result; the client is ready for the next call
Finish ==
    /\ pc = "done" /\ script.pc = "off"
    /\ pc' = "idle"
    /\ op' = NoOp /\ calls' = <<>> /\ outcome' = NoOutcome /\ inv' = NoInv
    /\ UNCHANGED <<client, script>>

\* The export script starts: client = get_client(), then main(client)
ScriptStart ==
    /\ pc = "new"
    /\ \E app \in Apps, email \in Emails, password \in Passwords :
         LET r == get_client(app, email, password)
         IN  /\ r.k = "return"
             /\ client' = r.v
    /\ pc' = "idle"
    /\ script' = [ScriptOff EXCEPT !.pc = "call", !.idx = 1]
    /\ UNCHANGED <<op, calls, outcome, inv>>

\* json = fn() for the next of the primary resources
ScriptCall ==
    /\ script.pc = "call" /\ pc = "idle" /\ script.idx <= Len(mapping_fns)
    /\ LET name == mapping_fns[script.idx].fn
       IN  IF name = "invoices"
           THEN EnterInvoices(Unset, <<>>)
           ELSE \E tr \in ScriptTransportsFor(name) :
                  LET d == Wrapper(name, NoArgs)
                      r == Dispatch(client, d, tr)
                  IN  /\ op' = [NoOp EXCEPT !.name = name, !.via = d.via, !.path = d.path,
                                            !.data = d.data, !.args = d.args]
                      /\ calls' = r.calls
                      /\ outcome' = r.out
                      /\ pc' = "done"
                      /\ inv' = inv
    /\ script' = [script EXCEPT !.pc = "wait"]
    /\ UNCHANGED client

\* fn() has returned or raised: main writes the file or counts the error,
\* or the exception leaves main
ScriptTest ==
    /\ script.pc = "wait" /\ pc = "done"
    /\ IF outcome.k = "raise"
       THEN /\ script' = [script EXCEPT !.pc = "raised", !.exc = outcome.v]
            /\ UNCHANGED <<pc, op, calls, outcome, inv>>
       ELSE LET s == PrimaryResult(script, outcome.v)
            IN  /\ script' = s
                /\ IF s.pc = "raised"
                   THEN UNCHANGED <<pc, op, calls, outcome, inv>>
                   ELSE /\ pc' = "idle"
                        /\ op' = NoOp /\ calls' = <<>> /\ outcome' = NoOutcome
                        /\ inv' = NoInv
    /\ UNCHANGED client

\* After the primary resources: main returns the error count when there is
\* one, and goes on to the exports by id when there is none
ScriptPrimaryDone ==
    /\ script.pc = "call" /\ pc = "idle" /\ script.idx > Len(mapping_fns)
    /\ script' = AfterPrimary(script)
    /\ UNCHANGED <<pc, client, op, calls, outcome, inv>>

\* setup_logger() raises (the log directory cannot be made, the log file
\* cannot be opened): it is called outside the try, so the process ends
\* with the traceback
ScriptSetupFails ==
    /\ pc = "new"
    /\ pc' = "rejected"
    /\ script' = [ScriptOff EXCEPT !.pc = "exited", !.exit = 1,
                                   !.exc = Exc("OSError", <<>>)]
    /\ UNCHANGED <<client, op, calls, outcome, inv>>

\* get_client() raises: the credentials file cannot be read
ScriptNoCredentials ==
    /\ pc = "new"
    /\ pc' = "rejected"
    /\ script' = [ScriptOff EXCEPT !.pc = "raised", !.exc = NoCredentials]
    /\ UNCHANGED <<client, op, calls, outcome, inv>>

\* d = fn(id, **kwargs) for the next id of the current export
ScriptExportCall ==
    /\ script.pc = "export" /\ pc = "idle" /\ script.iidx <= Len(ExportIds(script))
    /\ \E tr \in ExportTransports :
         LET m == mapping_ids[script.eidx]
             id == ExportIds(script)[script.iidx]
             d == Wrapper(m.fn, [NoArgs EXCEPT !.a = id.s[1]])
             r == Dispatch(client, d, tr)
         IN  /\ op' = [NoOp EXCEPT !.name = m.fn, !.via = d.via, !.path = d.path,
                                   !.data = d.data, !.args = d.args]
             /\ calls' = r.calls
             /\ outcome' = r.out
             /\ script' = [script EXCEPT !.pc = "ewait",
                                         !.log = Append(script.log, <<"info", id.s[1]>>)]
    /\ pc' = "done"
    /\ UNCHANGED <<client, inv>>

\* fn(id, **kwargs) has returned or raised
ScriptExportTake ==
    /\ script.pc = "ewait" /\ pc = "done"
    /\ IF outcome.k = "raise"
       THEN /\ script' = [script EXCEPT !.pc = "raised", !.exc = outcome.v]
            /\ UNCHANGED <<pc, op, calls, outcome, inv>>
       ELSE /\ script' = ExportTake(script, outcome.v)
            /\ pc' = "idle"
            /\ op' = NoOp /\ calls' = <<>> /\ outcome' = NoOutcome /\ inv' = NoInv
    /\ UNCHANGED client

\* The ids of the current export are done: its file is written
ScriptExportWrite ==
    /\ script.pc = "export" /\ pc = "idle" /\ script.iidx > Len(ExportIds(script))
    /\ script' = ExportWrite(script)
    /\ UNCHANGED <<pc, client, op, calls, outcome, inv>>

\* main() has returned: json_to_csv() when it returned no errors, then
\* sys.exit(errors)
ScriptMainReturned ==
    /\ script.pc = "returned"
    /\ IF script.errors # 0
       THEN script' = [script EXCEPT !.pc = "exit"]
       ELSE \E python \in Pythons :
              LET raised == json_to_csv(script.files, python)
              IN  IF raised = {}
                  THEN script' = [script EXCEPT !.pc = "exit", !.csv = TRUE]
                  ELSE \E exc \in raised :
                         script' = [script EXCEPT !.pc = "raised", !.csv = TRUE, !.exc = exc]
    /\ UNCHANGED <<pc, client, op, calls, outcome, inv>>

\* except Exception as exc: logger.exception(exc)
ScriptCaught ==
    /\ script.pc = "raised"
    /\ script' = [script EXCEPT !.pc = "caught",
                                !.log = Append(script.log, <<"exception", script.exc.type>>)]
    /\ UNCHANGED <<pc, client, op, calls, outcome, inv>>

\* finally: print("See log at: ..."); the process then ends, with the
\* status of sys.exit(errors) when that was reached and 0 when an exception
\* was caught
ScriptFinally ==
    /\ script.pc \in {"exit", "caught"}
    /\ script' = [script EXCEPT !.pc = "exited", !.printed = TRUE,
                                !.exit = IF script.pc = "exit" THEN script.errors ELSE 0]
    /\ UNCHANGED <<pc, client, op, calls, outcome, inv>>

Next ==
    \/ Construct
    \/ Call
    \/ StatusCall
    \/ InvoicesCall
    \/ InvoicesPage
    \/ Finish
    \/ ScriptStart
    \/ ScriptCall
    \/ ScriptTest
    \/ ScriptPrimaryDone
    \/ ScriptSetupFails
    \/ ScriptNoCredentials
    \/ ScriptExportCall
    \/ ScriptExportTake
    \/ ScriptExportWrite
    \/ ScriptMainReturned
    \/ ScriptCaught
    \/ ScriptFinally

Spec == Init /\ [][Next]_vars

\* The caller of invoices() keeps running: a turn of its loop that can be
\* taken is taken
FairSpec == Spec /\ WF_vars(InvoicesPage)

----------------------------------------------------------------------------
(* Properties *)

Basic == Str(<<"Basic">>)
OAuth2 == Str(<<"OAuth2">>)

\* The operation is one that goes through the dispatcher
Dispatched == op.name \in SingleNames \cup {"invoices"}

IsRaise(out, type) == out.k = "raise" /\ out.v.type = type

Decodes(resp) == resp.body.t = "json"

\* C1: every request a constructed client dispatches uses exactly one
\* authentication mode, Basic or OAuth2, chosen from the credentials given to
\* the constructor, and the dispatcher always has a mode to choose: no
\* operation of a constructed client ends for want of a mode.
C1_DispatcherAlwaysHasMode ==
    (pc = "done" /\ Dispatched) =>
        /\ ~IsRaise(outcome, "AttributeError")
        /\ \A i \in 1..Len(calls) :
             \/ client.auth = Basic /\ calls[i].requestor = [t |-> "requests"]
             \/ /\ client.auth = OAuth2
                /\ calls[i].requestor = [t |-> "OAuth2Session",
                                         client_id |-> client.client_id,
                                         token |-> client.token]

\* C2: when the HTTP call of a wrapper operation raises an exception, the
\* operation ends there by raising HarvestError holding that exception, in
\* both modes and for every HTTP method.
C2_TransportFailureRaisesHarvestError ==
    Dispatched =>
        \A i \in 1..Len(calls) :
            calls[i].tr.k = "exc" =>
                /\ i = Len(calls)
                /\ pc = "done"
                /\ outcome = Raise(Exc("HarvestError", <<calls[i].tr.v>>))

C2_Witness ==
    /\ pc = "done" /\ op.name = "delete_invoice" /\ client.auth = OAuth2
    /\ Len(calls) = 1 /\ calls[1].tr = Fails(Exc("Timeout", <<>>))
    /\ outcome = Raise(Exc("HarvestError", <<Exc("Timeout", <<>>)>>))

\* C3 as claimed: for every request that gets a response the dispatcher
\* returns the decoded body when the body decodes, and the response itself
\* only when it does not.
C3_DecodedWheneverDecodable ==
    Dispatched =>
        \A i \in 1..Len(calls) :
            calls[i].tr.k = "resp" =>
                calls[i].ret = IF Decodes(calls[i].tr.v)
                               THEN Return(calls[i].tr.v.body.of)
                               ELSE Return(calls[i].tr.v)

\* C3, amended: for every request other than a DELETE that gets a response
\* the dispatcher returns the decoded body when the body decodes and the
\* response itself when it does not; for a DELETE it returns the response
\* itself, decodable or not.  A body that does not decode raises nothing.
C3_DecodedUnlessDelete ==
    Dispatched =>
        \A i \in 1..Len(calls) :
            calls[i].tr.k = "resp" =>
                calls[i].ret = IF calls[i].method # "DELETE" /\ Decodes(calls[i].tr.v)
                               THEN Return(calls[i].tr.v.body.of)
                               ELSE Return(calls[i].tr.v)

C3_Witness ==
    /\ pc = "done" /\ op.name = "delete_task" /\ Len(calls) = 1
    /\ calls[1].tr.k = "resp" /\ Decodes(calls[1].tr.v)
    /\ outcome = Return(calls[1].tr.v)

\* The number of pages invoices() has drawn from its iterator
PagesDrawn ==
    IF inv.pages.t = "count" THEN inv.pages.next - 1
    ELSE IF op.pages.t = "list" THEN Len(op.pages.items) - Len(inv.pages.rest)
    ELSE 0

\* C4 as claimed: no operation issues a second request.
C4_NeverASecondRequest == Len(calls) <= 1

\* C4, amended: every operation other than invoices() issues at most one HTTP
\* request: exactly one, unless it fails before the request is made (a payload
\* json cannot serialise, a client constructed without credentials); invoices()
\* issues at most one request for each page it draws; a request that fails is
\* the last request of its operation.
C4_OneRequestPerOperationOrPage ==
    /\ \A i \in 1..Len(calls) : calls[i].tr.k = "exc" => i = Len(calls)
    /\ (pc = "done" /\ op.name # "invoices") =>
          Len(calls) = IF IsRaise(outcome, "TypeError") \/ IsRaise(outcome, "AttributeError")
                       THEN 0 ELSE 1
    /\ (op.name = "invoices" /\ pc \in {"invoices", "done"}) =>
          /\ Len(calls) <= PagesDrawn
          /\ (client.auth.t # "unset" /\ ~IsRaise(outcome, "KeyError")) =>
                Len(calls) = PagesDrawn

C4_Witness ==
    /\ pc = "done" /\ op.name = "invoices" /\ Len(calls) = 3
    /\ outcome.k = "return"

RECURSIVE Concatenated(_)
Concatenated(cs) ==
    IF cs = <<>> THEN <<>>
    ELSE Iterate(cs[1].ret.v) \o Concatenated(Tail(cs))

PathOf(call) == SubSeq(call.url, Len(client.uri) + 1, Len(call.url))

\* The request is for this page of the invoices
IsPage(call, page) ==
    /\ Len(PathOf(call)) >= 5
    /\ SubSeq(PathOf(call), 1, 5) = <<"/", "invoices", "?", "page=", ToString(page)>>

\* The dispatcher returned a value that a test takes for true
ReturnedTruthy(call) == call.ret.k = "return" /\ Truthy(call.ret.v)

\* C6: invoices() without a pages argument requests page 1, 2, 3, ... in
\* ascending order, none left out or repeated, and returns the invoices of the
\* pages before the first empty one, concatenated in the order of the pages.
C6_AllPagesInOrder ==
    (op.name = "invoices" /\ op.pages.t = "unset") =>
        /\ \A i \in 1..Len(calls) : IsPage(calls[i], i)
        /\ (pc = "done" /\ outcome.k = "return") =>
              /\ calls # <<>>
              /\ ~ReturnedTruthy(calls[Len(calls)])
              /\ \A i \in 1..(Len(calls) - 1) : ReturnedTruthy(calls[i])
              /\ outcome.v = List(Concatenated(SubSeq(calls, 1, Len(calls) - 1)))

C6_Witness ==
    /\ pc = "done" /\ op.name = "invoices" /\ op.pages.t = "unset"
    /\ Len(calls) = 3
    /\ outcome = Return(List(<<ItemB, ItemA, ItemA>>))

\* The URL holds value as the value of a parameter joined with '&'
HasParam(url, value) ==
    \E p \in 1..Len(url) :
        /\ url[p] = "&"
        /\ p + 1 + Len(value.s) <= Len(url)
        /\ SubSeq(url, p + 2, p + 1 + Len(value.s)) = value.s

\* C7: invoices() takes each filter its documentation names (start and end
\* date, client_id, status, updated-since date): with a value for the filter
\* the call does not fail for it and every page request has the filter in its
\* URL, joined after the page with '&'; with no filter the URL is
\* '/invoices?page=<n>' and nothing more.
C7_DocumentedFiltersAccepted ==
    op.name = "invoices" =>
        /\ ~IsRaise(outcome, "KeyError")
        /\ \A i \in 1..Len(calls) :
             /\ \A j \in 1..Len(op.kw) :
                  Truthy(op.kw[j][2]) => HasParam(calls[i].url, op.kw[j][2])
             /\ (\A j \in 1..Len(op.kw) : ~Truthy(op.kw[j][2])) =>
                  Len(PathOf(calls[i])) = 5

\* The method each kind of wrapper is to use
GetKind ==
    {"who_am_i", "contacts", "client_contacts", "clients", "people", "projects",
     "projects_for_client", "timesheets_for_project", "expenses_for_project", "tasks",
     "expense_categories", "today",
     "get_contact", "get_client", "get_person", "get_project", "get_task",
     "get_all_tasks_from_project", "get_one_task_assigment", "get_expense_category",
     "get_day", "get_entry", "get_invoice"}
PostKind ==
    {"create_contact", "create_client", "create_project", "create_task",
     "create_task_to_project", "create_expense_category", "add", "add_for_user",
     "add_invoice", "assign_task_to_project", "assign_user_to_project"}
PutKind ==
    {"update_contact", "update_client", "update_project", "update_task",
     "update_expense_category", "update_invoice", "change_task_from_project"}
DeleteKind ==
    {"delete", "delete_contact", "delete_client", "delete_person", "delete_project",
     "delete_task", "delete_expense_category", "delete_invoice",
     "remove_task_from_project"}

MethodOfKind(name) ==
    CASE name \in GetKind -> "GET"
      [] name \in PostKind -> "POST"
      [] name \in PutKind -> "PUT"
      [] name \in DeleteKind -> "DELETE"
      [] OTHER -> ""

\* C8: each wrapper method sends the HTTP method of its kind to the path of its
\* resource and ids, and the task- and user-assignment methods send the method
\* and the path their docstring states.
C8_MethodAndPathAsDocumented ==
    op.name \in SingleNames =>
        \A i \in 1..Len(calls) :
            /\ PathOf(calls[i]) = op.path
            /\ MethodOfKind(op.name) # "" => calls[i].method = MethodOfKind(op.name)
            /\ op.name \in AssignmentNames =>
                 LET doc == DocLine(op.name, op.args)
                 IN  /\ doc.verb # "" => calls[i].method = doc.verb
                     /\ PathOf(calls[i]) = doc.path

\* The server answered the request with the document of a failed authentication
AnsweredAuthFail(call) ==
    call.tr.k = "resp" /\ call.tr.v.body = JsonBody(AuthFailDoc)

Logged(level) == {script.log[i][2] : i \in {j \in 1..Len(script.log) : script.log[j][1] = level}}

\* C9: in main, a primary resource whose requests the server answers with the
\* authentication-failure document gets to the error log: its call is over
\* with that document once the server has answered; an error is logged, no
\* file is written and the error count goes up by one for each such resource,
\* and every other resource has its file.
C9_AuthFailureIsLoggedAndCounted ==
    script.pc # "off" =>
        /\ (script.pc = "wait" /\ calls # <<>>
              /\ \A i \in 1..Len(calls) : AnsweredAuthFail(calls[i])) =>
                 (pc = "done" /\ outcome = Return(AuthFailDoc))
        /\ script.errors = Cardinality(Logged("error"))
        /\ \A f \in script.files : f[1] \notin Logged("error")
        /\ \A n \in Logged("info") \cap {mapping_fns[i].file : i \in 1..Len(mapping_fns)} :
              \E f \in script.files : f[1] = n

\* The part of C10 that every state satisfies
C10_StopsAtFirstEmptyPage ==
    op.name = "invoices" =>
        /\ \A i \in 1..(Len(calls) - 1) : ReturnedTruthy(calls[i])
        /\ op.pages.t = "list" =>
             /\ Len(calls) <= Len(op.pages.items)
             /\ \A i \in 1..Len(calls) : IsPage(calls[i], op.pages.items[i])
             /\ (pc = "done" /\ outcome.k = "return") =>
                   \/ calls # <<>> /\ ~ReturnedTruthy(calls[Len(calls)])
                   \/ Len(calls) = Len(op.pages.items)

\* C10: a call of invoices() ends once a page comes back empty, with no
\* request after that page; with a pages list it requests pages of the list
\* only, in the order of the list, and returns at the end of the list or at
\* the first empty page, whichever comes first.
C10_InvoicesTerminates ==
    /\ [] C10_StopsAtFirstEmptyPage
    /\ (pc = "invoices") ~> (pc = "done")

C10_Witness ==
    /\ pc = "done" /\ op.name = "invoices" /\ op.pages = List(<<2, 1>>)
    /\ Len(calls) = 1 /\ IsPage(calls[1], 2)
    /\ outcome = Return(List(<<>>))

----------------------------------------------------------------------------
\* The requests on record carry the client's own headers and start with the
\* client's own uri
CarriesConfiguration(call) ==
    /\ call.headers = client.headers
    /\ Len(call.url) >= Len(client.uri)
    /\ SubSeq(call.url, 1, Len(client.uri)) = client.uri

\* C11: no operation changes the client's configuration after construction.
\* Once the client is built, no step, of an operation that succeeds or of one
\* that fails, changes its uri, authentication mode, credentials or headers,
\* and every request a client makes through the dispatcher carries the client's headers and starts
\* with the client's uri; so any two requests of one client have the same
\* headers and the same base uri.
C11_ConfigurationIsFrozen ==
    /\ [](op.name # "status" =>
             \A i \in 1..Len(calls) : CarriesConfiguration(calls[i]))
    /\ [][client # NoClient => client' = client]_vars

\* A client that has made two requests in one operation, with the
\* credentials in the headers
C11_Witness ==
    /\ client # NoClient
    /\ Len(calls) >= 2
    /\ calls[1].headers = calls[2].headers
    /\ HasHeader(calls[2].headers, "Authorization")

----------------------------------------------------------------------------
\* The files of the exports by id
ExportFiles == {mapping_ids[i].file : i \in 1..Len(mapping_ids)}

\* Once main has counted a failure: no export by id is begun, none of their
\* files exists, and json_to_csv is not run
NoExportAfterCountedFailure ==
    script.errors > 0 =>
        /\ script.eidx = 0
        /\ op.name \notin {mapping_ids[i].fn : i \in 1..Len(mapping_ids)}
        /\ \A f \in script.files : f[1] \notin ExportFiles
        /\ ~script.csv

\* The exports by id and the CSV conversion come only after six primary
\* files and no counted failure
ExportsOnlyAfterPrimary ==
    (script.eidx > 0 \/ script.csv) =>
        /\ script.errors = 0
        /\ \A i \in 1..Len(mapping_fns) : \E f \in script.files : f[1] = mapping_fns[i].file

\* The process that counted failures ends with the count as its status
ExitStatusIsErrorCount ==
    (script.pc = "exited" /\ script.errors > 0) => script.exit = script.errors

\* The process that has ended has printed the closing line
ClosingLinePrinted ==
    script.pc = "exited" => script.printed

\* C12: in the export script, once main has counted one or more
\* authentication failures no export by id is requested or written,
\* json_to_csv is not run, and the process ends with the error count as its
\* exit status; the exports by id and the CSV conversion run only after all
\* primary exports succeeded; and every run that ends has printed the
\* closing 'See log at' line.
C12_StopsAtCountedFailures ==
    /\ NoExportAfterCountedFailure
    /\ ExportsOnlyAfterPrimary
    /\ ExitStatusIsErrorCount
    /\ ClosingLinePrinted

----------------------------------------------------------------------------
\* The uri has a scheme and, after "//", a network location
HasSchemeAndNetloc(u) ==
    /\ Len(u) >= 3
    /\ u[1] \in {"http:", "https:"}
    /\ u[2] = "//"
    /\ u[3] \notin {"/", "//"}

\* s is u without the slashes u ends with
IsStripped(s, u) ==
    /\ Len(s) <= Len(u)
    /\ SubSeq(u, 1, Len(s)) = s
    /\ \A i \in (Len(s) + 1)..Len(u) : u[i] \in {"/", "//"}
    /\ (s # <<>> => s[Len(s)] \notin {"/", "//"})

\* The uris a client is constructed from, by a caller or by the script
GivenUris == Uris \cup {<<"https:", "//", app, ".harvestapp.com">> : app \in Apps}

\* C13: a uri without a scheme or without a network location makes the
\* constructor raise HarvestError and leaves no client; the uri of a client
\* that was constructed has both and is the given uri without its trailing
\* slashes, and the URL of every request is that uri followed by the path of
\* the operation.
C13_UriCheckedAndStripped ==
    /\ (pc = "rejected" /\ script.pc = "off") =>
          /\ IsRaise(outcome, "HarvestError")
          /\ client = NoClient
          /\ ~HasSchemeAndNetloc(Tail(outcome.v.args[1].s))
    /\ client # NoClient =>
          /\ HasSchemeAndNetloc(client.uri)
          /\ \E u \in GivenUris : HasSchemeAndNetloc(u) /\ IsStripped(client.uri, u)
          /\ op.name \in SingleNames =>
                \A i \in 1..Len(calls) : calls[i].url = client.uri \o op.path
          /\ op.name = "invoices" =>
                \A i \in 1..Len(calls) :
                    /\ SubSeq(calls[i].url, 1, Len(client.uri)) = client.uri
                    /\ \E page \in 1..(MaxPage + 1) : IsPage(calls[i], page)

\* A client made from a uri that ends with slashes has made a request
C13_Witness ==
    /\ client # NoClient
    /\ \E u \in GivenUris : u # client.uri /\ IsStripped(client.uri, u)
    /\ op.name \in SingleNames
    /\ calls # <<>>
    /\ calls[1].url = client.uri \o op.path

\* A uri without a network location has been rejected
C13_WitnessRejected ==
    /\ pc = "rejected" /\ script.pc = "off"
    /\ outcome.k = "raise"
    /\ Tail(outcome.v.args[1].s) = <<"https:", "//">>

----------------------------------------------------------------------------
\* The Authorization headers among the headers of a request
Authorization(headers) == {h[2] : h \in {g \in headers : g[1] = "Authorization"}}

\* The credentials and the flag are arguments the constructor makes the
\* client of the state from (with the client's own uri for the uri)
BuiltFrom(email, password, put) ==
    __init__(client.uri, email, password, PyNone, PyNone, put) = Return(client)

\* C14: in Basic mode every request carries the credentials by exactly one
\* mechanism, the one put_auth_in_header chose at construction.  With the
\* flag true the Authorization header is 'Basic ' followed by the base64 of
\* email, ':' and password, and no auth pair is passed to the HTTP call; with
\* the flag false there is no Authorization header and the pair
\* (email, password) is passed.  Never both and never neither.
C14_BasicCredentialsByOneMechanism ==
    (client # NoClient /\ client.auth = Basic /\ Dispatched /\ calls # <<>>) =>
        /\ \A email \in Emails, password \in Passwords, put \in BOOLEAN :
              BuiltFrom(email, password, put) =>
                  (put <=> Authorization(calls[1].headers) # {})
        /\ \A i \in 1..Len(calls) :
              LET inHeader == Authorization(calls[i].headers)
                  pair == calls[i].auth
              IN  /\ calls[i].requestor.t = "requests"
                  /\ (inHeader # {}) # (pair # <<>>)
                  /\ (inHeader # {}) <=> (Authorization(calls[1].headers) # {})
                  /\ inHeader # {} =>
                        inHeader = { <<"Basic ", "base64">> \o client.email.s
                                     \o <<":">> \o client.password.s }
                  /\ pair # <<>> => pair = <<client.email, client.password>>

\* A Basic client built with put_auth_in_header false has made a request
\* with the pair, and its email was given with spaces around it
C14_Witness ==
    /\ client # NoClient /\ client.auth = Basic /\ Dispatched
    /\ calls # <<>>
    /\ calls[1].auth = <<Str(<<"u@acme.com">>), Str(<<"secret">>)>>
    /\ Authorization(calls[1].headers) = {}
    /\ BuiltFrom(Str(<<" ", "u@acme.com", " ">>), Str(<<"secret">>), FALSE)

====
